---- MODULE Spec2Model ----
(***************************************************************************)
(* Model of cmd/main.go of dbexp: the "init table" command.                *)
(*                                                                         *)
(* main() resolves the table name (the --name flag, or an interactive huh  *)
(* form when the flag is empty), prints it, builds a TableSchema literal   *)
(* with four uuid.New() identifiers, hands it to toml.Marshal and prints   *)
(* either the error or the document.                                       *)
(*                                                                         *)
(* Strings are sequences of one-character strings, so that quoting and     *)
(* escaping in the TOML text are computed and not assumed.  A uuid.UUID is *)
(* a number whose String() form is a fixed-width sequence of hex digits.   *)
(***************************************************************************)
EXTENDS Integers, Sequences, FiniteSets, TLC

VARIABLES pc, preset, name, schema, cfg, err, out, prompted, formResult,
          issued, reasks

vars == <<pc, preset, name, schema, cfg, err, out, prompted, formResult,
          issued, reasks>>

(* ------------------------------ bounds --------------------------------- *)

MaxNameLen == 1

MaxUuid == 3

MaxReask == 1

(* ------------------------------ strings -------------------------------- *)

Chars == {"a", " ", "'", "\"", "\\"}

RECURSIVE SeqsUpTo(_)
SeqsUpTo(n) ==
  IF n = 0 THEN {<<>>}
  ELSE LET shorter == SeqsUpTo(n - 1)
       IN shorter \cup {Append(s, c) : s \in {t \in shorter : Len(t) = n - 1}, c \in Chars}

Names == SeqsUpTo(MaxNameLen)

Uuids == 0 .. MaxUuid

None == [absent |-> TRUE]

(* ------------------------------ data model ----------------------------- *)

DataTypeUUID == <<"u", "u", "i", "d">>

DataTypeTimestamp == <<"t", "i", "m", "e", "s", "t", "a", "m", "p">>

TableField(id, dataType, unique, required, automatic) ==
  [Id |-> id, DataType |-> dataType, Unique |-> unique,
   Required |-> required, Automatic |-> automatic]

TableSchema_sharedId(tid, n, f1, f2, f3) ==
  [Id |-> tid, Name |-> n,
   Fields |-> [k \in {"id", "created_at", "updated_at"} |->
      CASE k = "id" -> TableField(f1, DataTypeUUID, TRUE, TRUE, TRUE)
        [] k = "created_at" -> TableField(tid, DataTypeTimestamp, FALSE, TRUE, TRUE)
        [] k = "updated_at" -> TableField(f3, DataTypeTimestamp, FALSE, TRUE, TRUE)]]

TableSchema_uniqueTimestamps(tid, n, f1, f2, f3) ==
  [Id |-> tid, Name |-> n,
   Fields |-> [k \in {"id", "created_at", "updated_at"} |->
      CASE k = "id" -> TableField(f1, DataTypeUUID, TRUE, TRUE, TRUE)
        [] k = "created_at" -> TableField(f2, DataTypeTimestamp, TRUE, TRUE, TRUE)
        [] k = "updated_at" -> TableField(f3, DataTypeTimestamp, FALSE, TRUE, TRUE)]]

\* The composite literal handed to toml.Marshal: tid, f1, f2, f3 are the
\* results of the four uuid.New() calls in source order.
TableSchema(tid, n, f1, f2, f3) ==
  [Id |-> tid, Name |-> n,
   Fields |-> [k \in {"id", "created_at", "updated_at"} |->
      CASE k = "id" -> TableField(f1, DataTypeUUID, TRUE, TRUE, TRUE)
        [] k = "created_at" -> TableField(f2, DataTypeTimestamp, FALSE, TRUE, TRUE)
        [] k = "updated_at" -> TableField(f3, DataTypeTimestamp, FALSE, TRUE, TRUE)]]

(* --------------------------- textual format ---------------------------- *)

HexTable == <<"0", "1", "2", "3", "4", "5", "6", "7",
              "8", "9", "a", "b", "c", "d", "e", "f">>

\* uuid.UUID.String(): fixed-width lower-case hex (two digits here).
UuidString(u) == <<HexTable[((u \div 16) % 16) + 1], HexTable[(u % 16) + 1]>>

HexValue(c) == CHOOSE i \in 0 .. 15 : HexTable[i + 1] = c

\* uuid.Parse of the canonical form.
UuidParse(s) == HexValue(s[1]) * 16 + HexValue(s[2])

\* The encoder writes a literal string '...' unless the value cannot be
\* written as one.
NeedsQuoting(v) == \E i \in 1 .. Len(v) : v[i] = "'"

RECURSIVE Escape(_)
Escape(v) ==
  IF v = <<>> THEN <<>>
  ELSE IF Head(v) = "\\" THEN <<"\\", "\\">> \o Escape(Tail(v))
  ELSE IF Head(v) = "\"" THEN <<"\\", "\"">> \o Escape(Tail(v))
  ELSE <<Head(v)>> \o Escape(Tail(v))

RECURSIVE Unescape(_)
Unescape(v) ==
  IF v = <<>> THEN <<>>
  ELSE IF Head(v) = "\\" /\ Len(v) >= 2 THEN <<v[2]>> \o Unescape(Tail(Tail(v)))
  ELSE <<Head(v)>> \o Unescape(Tail(v))

EncodeString(v) ==
  IF NeedsQuoting(v) THEN <<"\"">> \o Escape(v) \o <<"\"">>
  ELSE <<"'">> \o v \o <<"'">>

Inner(t) == SubSeq(t, 2, Len(t) - 1)

DecodeString(t) ==
  IF Len(t) >= 2 /\ Head(t) = "\"" THEN Unescape(Inner(t))
  ELSE Inner(t)

EncodeBool(b) == IF b THEN <<"t", "r", "u", "e">> ELSE <<"f", "a", "l", "s", "e">>

DecodeBool(t) == t = <<"t", "r", "u", "e">>

Line(tbl, key, val) == [tbl |-> tbl, key |-> key, val |-> val]

\* Map keys are written in sorted order.
SortedKeys(f) ==
  LET present(k) == IF k \in DOMAIN f THEN <<k>> ELSE <<>>
  IN present("created_at") \o present("id") \o present("updated_at")

FieldLines_swappedTags(k, f) ==
  <<Line(<<"fields", k>>, "id", EncodeString(UuidString(f.Id))),
    Line(<<"fields", k>>, "type", EncodeString(f.DataType)),
    Line(<<"fields", k>>, "unique", EncodeBool(f.Required)),
    Line(<<"fields", k>>, "required", EncodeBool(f.Unique)),
    Line(<<"fields", k>>, "automatic", EncodeBool(f.Automatic))>>

\* One [fields.<k>] table: the toml tags of TableField, none with omitempty.
FieldLines(k, f) ==
  <<Line(<<"fields", k>>, "id", EncodeString(UuidString(f.Id))),
    Line(<<"fields", k>>, "type", EncodeString(f.DataType)),
    Line(<<"fields", k>>, "unique", EncodeBool(f.Unique)),
    Line(<<"fields", k>>, "required", EncodeBool(f.Required)),
    Line(<<"fields", k>>, "automatic", EncodeBool(f.Automatic))>>

RECURSIVE TablesOf(_, _)
TablesOf(keys, f) ==
  IF keys = <<>> THEN <<>>
  ELSE FieldLines(Head(keys), f[Head(keys)]) \o TablesOf(Tail(keys), f)

\* toml.Marshal(TableSchema{...}) on success: the document as a sequence of
\* key/value lines, each under its table path.
Marshal(s) ==
  <<Line(<<>>, "id", EncodeString(UuidString(s.Id))),
    Line(<<>>, "name", EncodeString(s.Name))>>
  \o TablesOf(SortedKeys(s.Fields), s.Fields)

HasKey(doc, tbl, key) == \E i \in 1 .. Len(doc) : doc[i].tbl = tbl /\ doc[i].key = key

Lookup(doc, tbl, key) ==
  doc[CHOOSE i \in 1 .. Len(doc) : doc[i].tbl = tbl /\ doc[i].key = key].val

BoolOr(doc, tbl, key) ==
  IF HasKey(doc, tbl, key) THEN DecodeBool(Lookup(doc, tbl, key)) ELSE FALSE

\* Reading the document back into a TableSchema; a boolean key that is
\* absent decodes as false.
Unmarshal(doc) ==
  LET keys == {doc[i].tbl[2] : i \in {j \in 1 .. Len(doc) : Len(doc[j].tbl) = 2}}
  IN [Id |-> UuidParse(DecodeString(Lookup(doc, <<>>, "id"))),
      Name |-> DecodeString(Lookup(doc, <<>>, "name")),
      Fields |-> [k \in keys |->
         TableField(UuidParse(DecodeString(Lookup(doc, <<"fields", k>>, "id"))),
                    DecodeString(Lookup(doc, <<"fields", k>>, "type")),
                    BoolOr(doc, <<"fields", k>>, "unique"),
                    BoolOr(doc, <<"fields", k>>, "required"),
                    BoolOr(doc, <<"fields", k>>, "automatic"))]]

(* ------------------------------ output --------------------------------- *)

ErrorLine == [kind |-> "error"]

NameLine(n) == [kind |-> "name", name |-> n]

CfgLine(doc) == [kind |-> "cfg", text |-> doc]

(* ------------------------------ main() --------------------------------- *)

Init ==
  /\ pc = "resolve"
  /\ preset \in Names
  /\ name = <<>>
  /\ schema = None
  /\ cfg = None
  /\ err = FALSE
  /\ out = <<>>
  /\ prompted = FALSE
  /\ formResult = "none"
  /\ issued = <<>>
  /\ reasks = 0

NeedsPrompt_never(n) == FALSE

NeedsPrompt_always(n) == TRUE

\* if name == ""
NeedsPrompt(n) == n = <<>>

\* name := CLI.Init.Table.Name with a non-empty flag: the form is skipped.
UsePreset ==
  /\ pc = "resolve"
  /\ ~NeedsPrompt(preset)
  /\ name' = preset
  /\ pc' = "print_name"
  /\ UNCHANGED <<preset, schema, cfg, err, out, prompted, formResult, issued, reasks>>

\* name := CLI.Init.Table.Name with an empty flag: form.Run() starts.
OpenForm ==
  /\ pc = "resolve"
  /\ NeedsPrompt(preset)
  /\ name' = preset
  /\ prompted' = TRUE
  /\ pc' = "prompt"
  /\ UNCHANGED <<preset, schema, cfg, err, out, formResult, issued, reasks>>

Validate_acceptAll(s) == TRUE

\* The Validate callback: TRUE when it returns nil.
Validate(s) == s # <<>>

\* The operator submits s and the Validate callback rejects it: the form
\* shows the error and keeps asking.
SubmitRejected(s) ==
  /\ pc = "prompt"
  /\ ~Validate(s)
  /\ reasks < MaxReask
  /\ reasks' = reasks + 1
  /\ UNCHANGED <<pc, preset, name, schema, cfg, err, out, prompted, formResult, issued>>

\* The operator submits s and the Validate callback accepts it: form.Run()
\* returns nil with s stored through Value(&name).
SubmitAccepted(s) ==
  /\ pc = "prompt"
  /\ Validate(s)
  /\ name' = s
  /\ formResult' = "accepted"
  /\ pc' = "print_name"
  /\ UNCHANGED <<preset, schema, cfg, err, out, prompted, issued, reasks>>

FormError_fallThrough(typed) ==
  /\ pc = "prompt"
  /\ name' = typed
  /\ formResult' = "aborted"
  /\ out' = Append(out, ErrorLine)
  /\ pc' = "print_name"
  /\ UNCHANGED <<preset, schema, cfg, err, prompted, issued, reasks>>

\* form.Run() returns an error (the operator aborted): "Error:" is printed
\* and main returns.  The text typed so far may already sit in name.
FormError(typed) ==
  /\ pc = "prompt"
  /\ name' = typed
  /\ formResult' = "aborted"
  /\ out' = Append(out, ErrorLine)
  /\ pc' = "done"
  /\ UNCHANGED <<preset, schema, cfg, err, prompted, issued, reasks>>

\* fmt.Println("Table Name:", name)
PrintName ==
  /\ pc = "print_name"
  /\ out' = Append(out, NameLine(name))
  /\ pc' = "build"
  /\ UNCHANGED <<preset, name, schema, cfg, err, prompted, formResult, issued, reasks>>

\* The TableSchema literal is evaluated: four uuid.New() calls, each of which
\* may return any identifier.
BuildSchema(tid, f1, f2, f3) ==
  /\ pc = "build"
  /\ issued' = <<tid, f1, f2, f3>>
  /\ schema' = TableSchema(tid, name, f1, f2, f3)
  /\ pc' = "marshal"
  /\ UNCHANGED <<preset, name, cfg, err, out, prompted, formResult, reasks>>

\* toml.Marshal returns the document.
MarshalOk ==
  /\ pc = "marshal"
  /\ cfg' = Marshal(schema)
  /\ pc' = "print_cfg"
  /\ UNCHANGED <<preset, name, schema, err, out, prompted, formResult, issued, reasks>>

\* toml.Marshal returns an error: "Error:" is printed and main returns.
MarshalErr ==
  /\ pc = "marshal"
  /\ err' = TRUE
  /\ out' = Append(out, ErrorLine)
  /\ pc' = "done"
  /\ UNCHANGED <<preset, name, schema, cfg, prompted, formResult, issued, reasks>>

PrintCfg_again ==
  /\ pc = "print_cfg"
  /\ out' = Append(out, CfgLine(cfg))
  /\ pc' = IF Len(out) < 2 THEN "print_cfg" ELSE "done"
  /\ UNCHANGED <<preset, name, schema, cfg, err, prompted, formResult, issued, reasks>>

\* fmt.Println(string(cfg))
PrintCfg ==
  /\ pc = "print_cfg"
  /\ out' = Append(out, CfgLine(cfg))
  /\ pc' = "done"
  /\ UNCHANGED <<preset, name, schema, cfg, err, prompted, formResult, issued, reasks>>

Next ==
  \/ UsePreset
  \/ OpenForm
  \/ \E s \in Names : SubmitRejected(s)
  \/ \E s \in Names : SubmitAccepted(s)
  \/ \E typed \in Names : FormError(typed)
  \/ PrintName
  \/ \E tid, f1, f2, f3 \in Uuids : BuildSchema(tid, f1, f2, f3)
  \/ MarshalOk
  \/ MarshalErr
  \/ PrintCfg

Spec == Init /\ [][Next]_vars

TypeOK ==
  /\ pc \in {"resolve", "prompt", "print_name", "build", "marshal", "print_cfg", "done"}
  /\ preset \in Names
  /\ name \in Names
  /\ err \in BOOLEAN
  /\ prompted \in BOOLEAN
  /\ formResult \in {"none", "accepted", "aborted"}
  /\ reasks \in 0 .. MaxReask

(* ------------------------------ properties ----------------------------- *)

FieldNames == {"id", "created_at", "updated_at"}

Kinds(k) == {i \in 1 .. Len(out) : out[i].kind = k}

Blank(n) == \A i \in 1 .. Len(n) : n[i] = " "

Injective(q) == \A i, j \in 1 .. Len(q) : i # j => q[i] # q[j]

\* C1: for a non-empty table name N (the preset, or the value accepted at
\* the prompt) the constructed schema is named N and its field map has
\* exactly the keys id, created_at, updated_at; id is a unique, required,
\* automatic uuid, and both timestamps are required, automatic, not unique.
C1_SchemaShape ==
  (schema # None /\ name # <<>>) =>
    /\ schema.Name = name
    /\ (preset # <<>> => schema.Name = preset)
    /\ DOMAIN schema.Fields = FieldNames
    /\ schema.Fields["id"].DataType = DataTypeUUID
    /\ schema.Fields["id"].Unique
    /\ schema.Fields["id"].Required
    /\ schema.Fields["id"].Automatic
    /\ \A k \in {"created_at", "updated_at"} :
         /\ schema.Fields[k].DataType = DataTypeTimestamp
         /\ schema.Fields[k].Required
         /\ schema.Fields[k].Automatic
         /\ ~schema.Fields[k].Unique

C1_Witness == schema # None /\ name # <<>> /\ formResult = "accepted"

\* C2: when the generator returned four different values, the table id and
\* the ids of the fields id, created_at and updated_at are pairwise distinct.
C2_DistinctIds ==
  (schema # None /\ Injective(issued)) =>
    /\ \A k \in FieldNames : schema.Fields[k].Id # schema.Id
    /\ \A k, l \in FieldNames : k # l => schema.Fields[k].Id # schema.Fields[l].Id

C2_Witness == schema # None /\ Injective(issued) /\ pc = "done"

\* C3: a non-empty preset is the resolved name, unchanged, and the form is
\* never run in that invocation.
C3_PresetUnchanged ==
  preset # <<>> =>
    /\ ~prompted
    /\ formResult = "none"
    /\ reasks = 0
    /\ (pc # "resolve" => name = preset)
    /\ \A i \in Kinds("name") : out[i].name = preset

C3_Witness == preset # <<>> /\ pc = "done" /\ Kinds("cfg") # {}

\* C4: with an empty preset the form is run before anything else happens:
\* every name line and every schema was preceded by the prompt accepting a
\* name, and that name is not the empty preset.
C4_EmptyPresetPrompts ==
  preset = <<>> =>
    /\ (pc # "resolve" => prompted)
    /\ (Kinds("name") # {} \/ schema # None \/ cfg # None) =>
         (prompted /\ formResult = "accepted" /\ name # <<>>)
    /\ (schema # None => schema.Name # <<>>)

C4_Witness == preset = <<>> /\ schema # None /\ Kinds("cfg") # {}

\* C5: a constructed schema and a serialized document never carry the empty
\* name, and the form is left only with a non-empty accepted value or an
\* abort.
C5_NameNonEmpty ==
  /\ (schema # None => schema.Name # <<>>)
  /\ (cfg # None => DecodeString(Lookup(cfg, <<>>, "name")) # <<>>)
  /\ \A i \in Kinds("cfg") : DecodeString(Lookup(out[i].text, <<>>, "name")) # <<>>
  /\ (prompted /\ pc # "prompt") =>
       \/ formResult = "aborted"
       \/ formResult = "accepted" /\ name # <<>>

C5_Witness == reasks > 0 /\ schema # None /\ Kinds("cfg") # {}

\* C6: after an abort of the form the only output is the error, main has
\* returned, and no schema and no document exist.
C6_AbortNoOutput ==
  formResult = "aborted" =>
    /\ pc = "done"
    /\ schema = None
    /\ cfg = None
    /\ out = <<ErrorLine>>

C6_Witness == formResult = "aborted" /\ name # <<>> /\ reasks > 0

\* C7: when toml.Marshal has returned an error, standard output holds
\* nothing of the operation's result (only the error report) and main has
\* returned without a retry.
C7_NoPartialOutput ==
  err =>
    /\ pc = "done"
    /\ cfg = None
    /\ \A i \in 1 .. Len(out) : out[i].kind = "error"

\* C8: a blank name (empty or only spaces) is never printed and never put
\* into a schema.
C8_BlankNeverEmitted ==
  /\ \A i \in Kinds("name") : ~Blank(out[i].name)
  /\ (schema # None => ~Blank(schema.Name))

Rank(p) ==
  CASE p \in {"resolve", "prompt"} -> 0
    [] p \in {"print_name", "build"} -> 1
    [] p = "marshal" -> 2
    [] p = "print_cfg" -> 3
    [] p = "done" -> 4

\* C10: a run passes through unresolved name, name, schema, serialized text
\* in that order without going back or skipping; the schema is built only
\* once the name is resolved, the text is printed only after toml.Marshal
\* succeeded, at most one document is printed, and only the form's re-ask
\* repeats a step.
C10_PhaseOrder ==
  [][/\ Rank(pc') >= Rank(pc)
     /\ (pc' # "done" => Rank(pc') <= Rank(pc) + 1)
     /\ (pc' = pc => pc = "prompt")
     /\ (schema' # None => (Rank(pc') >= 2 /\ schema'.Name = name' /\ name' = name))
     /\ (schema # None => schema' = schema)
     /\ (cfg' # None => (Rank(pc') >= 3 /\ schema' # None))
     /\ (cfg # None => cfg' = cfg)
     /\ Cardinality({i \in 1 .. Len(out') : out'[i].kind = "cfg"}) <= 1
     /\ \A i \in 1 .. Len(out') :
          out'[i].kind = "cfg" => (cfg' # None /\ ~err' /\ out'[i].text = cfg')
    ]_vars

C10_Witness == pc = "done" /\ reasks > 0 /\ Kinds("cfg") # {}

====
